---- MODULE Spec2Model ----
(***************************************************************************)
(* A model of experiments/model_lr.py: the three column transformers       *)
(* (ColumnsSelector, CategoricalImputer, CategoricalEncoder), the pipeline *)
(* built by get_pipeline() and the script under __main__.                  *)
(*                                                                         *)
(* A table (pandas DataFrame) is a sequence of columns, each a record      *)
(* [name, dtype, vals]; every column of a table has the same number of     *)
(* rows.  A missing entry of an object column is the value NaN.            *)
(***************************************************************************)
EXTENDS Naturals, Sequences, FiniteSets, TLC

(* ----------------------------- bounds ---------------------------------- *)

\* rows of every table handed to a transformer
NRows == 3

\* category values an object column may hold, and the missing value
Vals == {"A", "B"}
NaN == "NaN"

\* column names of the tables handed to a transformer
ColNames == {"a", "b"}

(* ----------------------------- tables ---------------------------------- *)

Range(s) == {s[i] : i \in DOMAIN s}

NoDup(s) == \A i, j \in DOMAIN s : s[i] = s[j] => i = j

Column(n, t, v) == [name |-> n, dtype |-> t, vals |-> v]

ObjVectors == [1..NRows -> Vals \cup {NaN}]

\* an int64 column holds no missing entry; its numbers are written as digits
IntVectors == {[i \in 1..NRows |-> IF i % 2 = 1 THEN "1" ELSE "2"]}

ColumnsNamed(n) ==
    {Column(n, "object", v) : v \in ObjVectors}
        \cup {Column(n, "int64", v) : v \in IntVectors}

\* every table over ColNames: no column, one column, or column a then column b
Tables ==
    {<<>>}
        \cup {<<c>> : c \in UNION {ColumnsNamed(n) : n \in ColNames}}
        \cup {<<c, d>> : c \in ColumnsNamed("a"), d \in ColumnsNamed("b")}

\* X.columns
Names(X) == [i \in DOMAIN X |-> X[i].name]

HasCol(X, n) == \E i \in DOMAIN X : X[i].name = n

\* X[n], defined when HasCol(X, n)
Col(X, n) == X[CHOOSE i \in DOMAIN X : X[i].name = n]

\* a missing entry: only an object column holds NaN
IsNA(col, i) == col.dtype = "object" /\ col.vals[i] = NaN

\* the non-missing values of a column
Present(col) == {col.vals[i] : i \in {j \in DOMAIN col.vals : ~IsNA(col, j)}}

Count(col, v) == Cardinality({i \in DOMAIN col.vals : ~IsNA(col, i) /\ col.vals[i] = v})

\* Series.value_counts().index.tolist(): the non-missing values, most frequent
\* first; the order of values of equal count is whatever pandas' sort yields,
\* so every order of a tie is a possible result
ValueCounts(col) ==
    {s \in [1..Cardinality(Present(col)) -> Present(col)] :
        /\ NoDup(s)
        /\ \A i \in DOMAIN s : i > 1 => Count(col, s[i - 1]) >= Count(col, s[i])}

\* DataFrame.select_dtypes(include=[t])
select_dtypes(X, t) == SelectSeq(X, LAMBDA col : col.dtype = t)

(* ---------------------------- outcomes --------------------------------- *)

\* what a call left behind: nothing yet, self (fit), a table (transform) or an
\* exception
NoOut == [kind |-> "none", exc |-> "", table |-> <<>>]
Self == [kind |-> "self", exc |-> "", table |-> <<>>]
Raise(e) == [kind |-> "error", exc |-> e, table |-> <<>>]
Return(T) == [kind |-> "table", exc |-> "", table |-> T]

(* ------------------------- ColumnsSelector ----------------------------- *)

ColumnsSelector_transform(type, X) == select_dtypes(X, type)

(* ------------------------ CategoricalImputer --------------------------- *)

\* self.columns: None, or a list of column names
None == [isNone |-> TRUE, list |-> <<>>]
List(l) == [isNone |-> FALSE, list |-> l]

\* self.fill: the attribute does not exist before fit has assigned it
NoFill == [isSet |-> FALSE, map |-> <<>>]
Fill(m) == [isSet |-> TRUE, map |-> m]

\* self.strategy is a string object; text is its value and interned says
\* whether it is the very object of the literal 'most_frequent' (the default
\* argument and every literal are; a string built at run time is not)
Strategy(t, i) == [text |-> t, interned |-> i]

\* self.strategy is 'most_frequent': an identity test
IsMostFrequent(strategy) == strategy.text = "most_frequent" /\ strategy.interned

\* X[column].value_counts().index[0] of every column of the list, given that
\* each is a column of X with a non-missing value
RECURSIVE MostFrequentFills(_, _)
MostFrequentFills(list, X) ==
    IF list = <<>> THEN {<<>>}
    ELSE {(Head(list) :> s[1]) @@ f :
            s \in ValueCounts(Col(X, Head(list))),
            f \in MostFrequentFills(Tail(list), X)}

\* the first column of the list on which the comprehension of line 65 raises
FitFailures(list, X) ==
    {i \in DOMAIN list :
        \/ ~HasCol(X, list[i])
        \/ Present(Col(X, list[i])) = {}}

Min(S) == CHOOSE i \in S : \A j \in S : i <= j

\* fit: the outcomes [out, columns, fill] of self.fit(X)
CategoricalImputer_fit(columns, strategy, fill, X) ==
    LET cols == IF columns.isNone THEN List(Names(X)) ELSE columns
        bad == FitFailures(cols.list, X)
    IN  IF IsMostFrequent(strategy)
        THEN IF bad # {}
             THEN {[out |-> Raise(IF HasCol(X, cols.list[Min(bad)])
                                  THEN "IndexError" ELSE "KeyError"),
                    columns |-> cols, fill |-> fill]}
             ELSE {[out |-> Self, columns |-> cols, fill |-> Fill(f)] :
                      f \in MostFrequentFills(cols.list, X)}
        ELSE {[out |-> Self, columns |-> cols,
               fill |-> Fill([c \in Range(cols.list) |-> "0"])]}

\* Series.fillna(v)
fillna(col, v) ==
    [col EXCEPT !.vals = [i \in DOMAIN col.vals |->
                             IF IsNA(col, i) THEN v ELSE col.vals[i]]]

\* the columns of the list on which line 76 raises
TransformFailures(list, fill, X) ==
    {i \in DOMAIN list :
        \/ ~HasCol(X, list[i])
        \/ ~fill.isSet
        \/ list[i] \notin DOMAIN fill.map}

\* CategoricalImputer_transform without line 74's copy: the columns are
\* filled in the caller's own table
InPlace_transform(columns, fill, X) ==
    LET ok == ~columns.isNone /\ TransformFailures(columns.list, fill, X) = {}
        T == [j \in DOMAIN X |->
                IF ok /\ X[j].name \in Range(columns.list)
                THEN fillna(X[j], fill.map[X[j].name])
                ELSE X[j]]
    IN  [out |-> IF ok THEN Return(T) ELSE Raise("Error"),
         X |-> T, columns |-> columns, fill |-> fill]

\* transform: the outcome of self.transform(X): what it returns or raises, the
\* caller's table X as the call leaves it (the call works on X.copy()) and the
\* instance's attributes as the call leaves them
CategoricalImputer_transform(columns, fill, X) ==
    LET bad == TransformFailures(columns.list, fill, X)
        out == IF columns.isNone THEN Raise("TypeError")
               ELSE IF bad # {}
               THEN Raise(IF ~HasCol(X, columns.list[Min(bad)]) THEN "KeyError"
                          ELSE IF ~fill.isSet THEN "AttributeError"
                          ELSE "KeyError")
               ELSE Return([j \in DOMAIN X |->
                               IF X[j].name \in Range(columns.list)
                               THEN fillna(X[j], fill.map[X[j].name])
                               ELSE X[j]])
    IN  [out |-> out, X |-> X, columns |-> columns, fill |-> fill]

(* ------------------------ CategoricalEncoder --------------------------- *)

\* the vocabularies fit may record for the object columns Xo, added to cats
RECURSIVE FitCategories(_, _)
FitCategories(cats, Xo) ==
    IF Xo = <<>> THEN {cats}
    ELSE UNION {FitCategories((Head(Xo).name :> s) @@ cats, Tail(Xo)) :
                    s \in ValueCounts(Head(Xo))}

\* fit: the outcomes [out, categories] of self.fit(X)
CategoricalEncoder_fit(categories, X) ==
    {[out |-> Self, categories |-> c] :
        c \in FitCategories(categories, select_dtypes(X, "object"))}

\* astype that puts a value outside cats into the first category
FirstCategory_astype(col, cats) ==
    [name |-> col.name, dtype |-> "category", categories |-> cats,
     vals |-> [i \in DOMAIN col.vals |->
                 IF col.vals[i] \in Range(cats) THEN col.vals[i]
                 ELSE IF cats # <<>> /\ col.vals[i] # NaN THEN cats[1] ELSE NaN]]

\* Series.astype(CategoricalDtype(cats)): a value outside cats becomes NaN
astype(col, cats) ==
    [name |-> col.name, dtype |-> "category", categories |-> cats,
     vals |-> [i \in DOMAIN col.vals |->
                 IF col.vals[i] \in Range(cats) THEN col.vals[i] ELSE NaN]]

\* get_dummies_1d that keeps the first level whatever drop_first says
KeepFirst_get_dummies_1d(col, drop_first) ==
    [k \in DOMAIN col.categories |->
        Column(col.name \o "_" \o col.categories[k], "uint8",
               [i \in DOMAIN col.vals |->
                   IF col.vals[i] = col.categories[k] THEN 1 ELSE 0])]

\* the indicator columns of one categorical column
get_dummies_1d(col, drop_first) ==
    LET levels == IF drop_first /\ col.categories # <<>>
                  THEN Tail(col.categories) ELSE col.categories
    IN  [k \in DOMAIN levels |->
            Column(col.name \o "_" \o levels[k], "uint8",
                   [i \in DOMAIN col.vals |->
                       IF col.vals[i] = levels[k] THEN 1 ELSE 0])]

RECURSIVE concat(_)
concat(frames) ==
    IF frames = <<>> THEN <<>> ELSE Head(frames) \o concat(Tail(frames))

\* pd.get_dummies(Xc, drop_first) of a frame of categorical columns only.
\* With no column there is nothing to concatenate: pandas either raises
\* ValueError or returns the empty frame, depending on the release; empty
\* names which one the installed release does
get_dummies(Xc, drop_first, empty) ==
    IF Xc = <<>>
    THEN IF empty = "ValueError" THEN Raise("ValueError") ELSE Return(<<>>)
    ELSE Return(concat([j \in DOMAIN Xc |-> get_dummies_1d(Xc[j], drop_first)]))

\* transform: the outcome of self.transform(X): what it returns or raises, the
\* caller's table X and self.categories as the call leaves them
CategoricalEncoder_transform(categories, dropFirst, X, empty) ==
    LET Xo == select_dtypes(X, "object")
        bad == {j \in DOMAIN Xo : Xo[j].name \notin DOMAIN categories}
        out == IF bad # {} THEN Raise("KeyError")
               ELSE get_dummies([j \in DOMAIN Xo |->
                                    astype(Xo[j], categories[Xo[j].name])],
                                dropFirst, empty)
    IN  [out |-> out, X |-> X, categories |-> categories]

(* ---------------------------- get_pipeline ----------------------------- *)

\* the columns get_pipeline hands to the imputer
missing_cols == <<"workclass", "occupation", "native-country">>

\* pipeline_num: ColumnsSelector(type='int64') then StandardScaler, which
\* refuses a table without a column. The scaled numbers play no part below:
\* the branch yields the names of its features
pipeline_num(X) ==
    LET Xn == ColumnsSelector_transform("int64", X)
    IN  IF Xn = <<>> THEN Raise("ValueError") ELSE Return(Names(Xn))

\* pipeline_cat.fit_transform(X): selector, imputer, encoder, each fit and then
\* applied; the outcomes [out, columns, fill, categories]. Pipeline clones a
\* step before fitting it (memory is set), so fill and categories start as
\* __init__ leaves them
pipeline_cat_fit(columns, strategy, dropFirst, X, empty) ==
    LET Xo == ColumnsSelector_transform("object", X)
        Encode(r1, Xi) ==
            {[out |-> CategoricalEncoder_transform(r2.categories, dropFirst,
                                                   Xi, empty).out,
              columns |-> r1.columns, fill |-> r1.fill,
              categories |-> r2.categories] :
                r2 \in CategoricalEncoder_fit(<<>>, Xi)}
        Impute(r1) ==
            LET t1 == CategoricalImputer_transform(r1.columns, r1.fill, Xo)
            IN  IF r1.out.kind = "error"
                THEN {[out |-> r1.out, columns |-> r1.columns,
                       fill |-> r1.fill, categories |-> <<>>]}
                ELSE IF t1.out.kind = "error"
                THEN {[out |-> t1.out, columns |-> r1.columns,
                       fill |-> r1.fill, categories |-> <<>>]}
                ELSE Encode(r1, t1.out.table)
    IN  UNION {Impute(r1) :
                  r1 \in CategoricalImputer_fit(columns, strategy, NoFill, Xo)}

\* pipeline_cat.transform(X): what it returns or raises
pipeline_cat_transform(columns, fill, categories, dropFirst, X, empty) ==
    LET Xo == ColumnsSelector_transform("object", X)
        t1 == CategoricalImputer_transform(columns, fill, Xo)
    IN  IF t1.out.kind = "error" THEN t1.out
        ELSE CategoricalEncoder_transform(categories, dropFirst,
                                          t1.out.table, empty).out

\* model_lr before LogisticRegression.fit has returned
NoModel == [classes |-> {}, features |-> 0]

\* what pipeline_full.fit leaves: the exception type if one was raised, and
\* the fitted attributes
FitResult(e, c, f, k, sc, m) ==
    [exc |-> e, columns |-> c, fill |-> f, categories |-> k, scaler |-> sc,
     model_lr |-> m]

\* pipeline_full.fit(X, y): the FeatureUnion fits pipeline_num, then
\* pipeline_cat, and LogisticRegression is fit on their features side by
\* side; it needs two classes. A step that raises leaves the pipeline's own
\* steps as they were
pipeline_full_fit(columns, strategy, fill, categories, dropFirst, X, y, empty) ==
    LET num == pipeline_num(X)
        unfit(e) == FitResult(e, columns, fill, categories, <<>>, NoModel)
    IN  IF num.kind = "error" THEN {unfit(num.exc)}
        ELSE {IF c.out.kind = "error" THEN unfit(c.out.exc)
              ELSE IF Cardinality(Range(y)) < 2
              THEN FitResult("ValueError", c.columns, c.fill, c.categories,
                             num.table, NoModel)
              ELSE FitResult("", c.columns, c.fill, c.categories, num.table,
                             [classes |-> Range(y),
                              features |-> Len(num.table) + Len(c.out.table)]) :
                 c \in pipeline_cat_fit(columns, strategy, dropFirst, X, empty)}

\* pipeline_full.predict(X): the outcomes [exc, pred]. The coefficients are
\* not modelled: a prediction is any vector of training classes, one per row
pipeline_full_predict(columns, fill, categories, dropFirst, sc, m, X, empty) ==
    LET num == pipeline_num(X)
        cat == pipeline_cat_transform(columns, fill, categories, dropFirst,
                                      X, empty)
    IN  IF num.kind = "error" THEN {[exc |-> num.exc, pred |-> <<>>]}
        ELSE IF Len(num.table) # Len(sc)
        THEN {[exc |-> "ValueError", pred |-> <<>>]}
        ELSE IF cat.kind = "error" THEN {[exc |-> cat.exc, pred |-> <<>>]}
        ELSE IF Len(num.table) + Len(cat.table) # m.features
        THEN {[exc |-> "ValueError", pred |-> <<>>]}
        ELSE {[exc |-> "", pred |-> q] :
                 q \in [DOMAIN X[1].vals -> m.classes]}

(* ------------------- a client driving one transformer ------------------ *)

VARIABLES
    cls,            \* the class of the instance the client constructed
    ctor_columns,   \* the columns argument the imputer was constructed with
    columns,        \* CategoricalImputer.columns
    strategy,       \* CategoricalImputer.strategy
    fill,           \* CategoricalImputer.fill
    categories,     \* CategoricalEncoder.categories
    dropFirst,      \* CategoricalEncoder.dropFirst
    X,              \* the table the client holds, if any
    out,            \* what the last call returned or raised
    op,             \* the last call: "new", "bind", "fit", "transform"
    fit_called,     \* fit has been called on the instance
    empty_dummies,  \* what the installed pandas does in get_dummies of no column
    pc,             \* the statement of __main__ to run next
    exc,            \* the exception that ended __main__, and where
    X_training,     \* __main__'s training table
    y_training,     \* its labels
    X_val,          \* __main__'s validation table
    scaler,         \* the columns the pipeline's StandardScaler was fit on
    model_lr,       \* the pipeline's LogisticRegression once fit
    y_val_pred,     \* the labels predicted for X_val
    gs_lr           \* the GridSearchCV object: "undefined", "Unfit" or "Fit"

client_vars == <<cls, ctor_columns, X, out, op, fit_called>>

main_vars == <<pc, exc, X_training, y_training, X_val, scaler, model_lr,
               y_val_pred, gs_lr>>

vars == <<client_vars, main_vars, columns, strategy, fill, categories,
          dropFirst, empty_dummies>>

NoExc == [at |-> "", type |-> ""]

\* __main__ is not running
MainIdle ==
    /\ pc = "off"
    /\ exc = NoExc
    /\ X_training = <<>>
    /\ y_training = <<>>
    /\ X_val = <<>>
    /\ scaler = <<>>
    /\ model_lr = NoModel
    /\ y_val_pred = <<>>
    /\ gs_lr = "undefined"

NoTable == [held |-> FALSE, table |-> <<>>]
Held(T) == [held |-> TRUE, table |-> T]

ColumnsArgs == {None} \cup {List(l) : l \in {<<>>, <<"a">>, <<"b">>, <<"a", "b">>}}

Strategies ==
    {Strategy("most_frequent", TRUE), Strategy("most_frequent", FALSE),
     Strategy("zero", TRUE)}

\* the instance right after __init__
Init ==
    /\ cls \in {"CategoricalImputer", "CategoricalEncoder"}
    /\ IF cls = "CategoricalImputer"
       THEN /\ ctor_columns \in ColumnsArgs
            /\ strategy \in Strategies
            /\ dropFirst = TRUE
            /\ empty_dummies = "ValueError"
       ELSE /\ ctor_columns = None
            /\ strategy = Strategy("most_frequent", TRUE)
            /\ dropFirst \in BOOLEAN
            /\ empty_dummies \in {"ValueError", "empty"}
    /\ columns = ctor_columns
    /\ fill = NoFill
    /\ categories = <<>>
    /\ X = NoTable
    /\ out = NoOut
    /\ op = "new"
    /\ fit_called = FALSE
    /\ MainIdle

\* the client takes hold of a table
Bind ==
    /\ ~X.held
    /\ \E T \in Tables : X' = Held(T)
    /\ out' = NoOut
    /\ op' = "bind"
    /\ UNCHANGED <<cls, ctor_columns, columns, strategy, fill, categories,
                   dropFirst, fit_called, empty_dummies, main_vars>>

\* the client lets go of its table and of the last result
Release ==
    /\ X.held
    /\ X' = NoTable
    /\ out' = NoOut
    /\ op' = "new"
    /\ UNCHANGED <<cls, ctor_columns, columns, strategy, fill, categories,
                   dropFirst, fit_called, empty_dummies, main_vars>>

ImputerFit ==
    /\ cls = "CategoricalImputer"
    /\ X.held
    /\ \E r \in CategoricalImputer_fit(columns, strategy, fill, X.table) :
          /\ columns' = r.columns
          /\ fill' = r.fill
          /\ out' = r.out
    /\ op' = "fit"
    /\ fit_called' = TRUE
    /\ UNCHANGED <<cls, ctor_columns, strategy, categories, dropFirst, X,
                   empty_dummies, main_vars>>

ImputerTransform ==
    /\ cls = "CategoricalImputer"
    /\ X.held
    /\ LET r == CategoricalImputer_transform(columns, fill, X.table)
       IN  /\ out' = r.out
           /\ X' = Held(r.X)
           /\ columns' = r.columns
           /\ fill' = r.fill
    /\ op' = "transform"
    /\ UNCHANGED <<cls, ctor_columns, strategy, categories, dropFirst,
                   fit_called, empty_dummies, main_vars>>

EncoderFit ==
    /\ cls = "CategoricalEncoder"
    /\ X.held
    /\ \E r \in CategoricalEncoder_fit(categories, X.table) :
          /\ categories' = r.categories
          /\ out' = r.out
    /\ op' = "fit"
    /\ fit_called' = TRUE
    /\ UNCHANGED <<cls, ctor_columns, columns, strategy, fill, dropFirst, X,
                   empty_dummies, main_vars>>

EncoderTransform ==
    /\ cls = "CategoricalEncoder"
    /\ X.held
    /\ LET r == CategoricalEncoder_transform(categories, dropFirst, X.table,
                                             empty_dummies)
       IN  /\ out' = r.out
           /\ X' = Held(r.X)
           /\ categories' = r.categories
    /\ op' = "transform"
    /\ UNCHANGED <<cls, ctor_columns, columns, strategy, fill, dropFirst,
                   fit_called, empty_dummies, main_vars>>

Next ==
    \/ Bind
    \/ Release
    \/ ImputerFit
    \/ ImputerTransform
    \/ EncoderFit
    \/ EncoderTransform

Spec == Init /\ [][Next]_vars

(* ------------------------------ __main__ ------------------------------- *)

\* rows of the training and of the validation table train_test_split returns
TrainRows == 2
ValRows == 1

Labels == {0, 1}

Field(n, t) == [name |-> n, dtype |-> t]

\* the column layouts of the data handed to __main__: one numeric and one
\* object column under several names and types, and the three columns
\* get_pipeline names beside an int64 column
MainSchemas ==
    {<<Field("age", "int64"), Field("c", "object")>>,
     <<Field("age", "float64"), Field("c", "object")>>,
     <<Field("c", "object")>>,
     <<Field("age", "int64"), Field("workclass", "object")>>,
     <<Field("age", "int64"), Field("workclass", "object"),
       Field("occupation", "object"), Field("native-country", "object")>>}

VectorsOf(t, n) ==
    IF t = "object" THEN [1..n -> Vals \cup {NaN}]
    ELSE {[i \in 1..n |-> IF i % 2 = 1 THEN "1" ELSE "2"]}

RECURSIVE TablesOf(_, _)
\* the tables of n rows with the columns of a schema
TablesOf(schema, n) ==
    IF schema = <<>> THEN {<<>>}
    ELSE {<<Column(Head(schema).name, Head(schema).dtype, v)>> \o T :
             v \in VectorsOf(Head(schema).dtype, n),
             T \in TablesOf(Tail(schema), n)}

\* __main__ is about to run line 144; no client drives a transformer
InitMain ==
    /\ cls = "Pipeline"
    /\ ctor_columns = None
    /\ X = NoTable
    /\ out = NoOut
    /\ op = "new"
    /\ fit_called = FALSE
    /\ columns = None
    /\ strategy = Strategy("most_frequent", TRUE)
    /\ fill = NoFill
    /\ categories = <<>>
    /\ dropFirst = TRUE
    /\ empty_dummies \in {"ValueError", "empty"}
    /\ pc = "split"
    /\ exc = NoExc
    /\ X_training = <<>>
    /\ y_training = <<>>
    /\ X_val = <<>>
    /\ scaler = <<>>
    /\ model_lr = NoModel
    /\ y_val_pred = <<>>
    /\ gs_lr = "undefined"

Raised(at, type) == [at |-> at, type |-> type]

\* lines 144-145: train_test_split of the data the namespace supplies
Split ==
    /\ pc = "split"
    /\ \E schema \in MainSchemas :
          /\ X_training' \in TablesOf(schema, TrainRows)
          /\ X_val' \in TablesOf(schema, ValRows)
    /\ y_training' \in [1..TrainRows -> Labels]
    /\ pc' = "get_pipeline"
    /\ UNCHANGED <<client_vars, columns, strategy, fill, categories, dropFirst,
                   empty_dummies, exc, scaler, model_lr, y_val_pred, gs_lr>>

\* line 148: get_pipeline() constructs the transformers
GetPipeline ==
    /\ pc = "get_pipeline"
    /\ columns' = List(missing_cols)
    /\ strategy' = Strategy("most_frequent", TRUE)
    /\ fill' = NoFill
    /\ categories' = <<>>
    /\ dropFirst' = TRUE
    /\ scaler' = <<>>
    /\ model_lr' = NoModel
    /\ pc' = "fit"
    /\ UNCHANGED <<client_vars, empty_dummies, exc, X_training, y_training,
                   X_val, y_val_pred, gs_lr>>

\* line 151: pipeline_full.fit(X_training, y_training)
PipelineFit ==
    /\ pc = "fit"
    /\ \E r \in pipeline_full_fit(columns, strategy, fill, categories,
                                   dropFirst, X_training, y_training,
                                   empty_dummies) :
          /\ columns' = r.columns
          /\ fill' = r.fill
          /\ categories' = r.categories
          /\ scaler' = r.scaler
          /\ model_lr' = r.model_lr
          /\ IF r.exc = "" THEN pc' = "predict" /\ exc' = exc
             ELSE pc' = "raised" /\ exc' = Raised("fit", r.exc)
    /\ UNCHANGED <<client_vars, strategy, dropFirst, empty_dummies,
                   X_training, y_training, X_val, y_val_pred, gs_lr>>

\* line 154: y_val_pred = pipeline_full.predict(X_val)
PipelinePredict ==
    /\ pc = "predict"
    /\ \E r \in pipeline_full_predict(columns, fill, categories, dropFirst,
                                       scaler, model_lr, X_val, empty_dummies) :
          /\ y_val_pred' = r.pred
          /\ IF r.exc = "" THEN pc' = "evaluate" /\ exc' = exc
             ELSE pc' = "raised" /\ exc' = Raised("predict", r.exc)
    /\ UNCHANGED <<client_vars, columns, strategy, fill, categories, dropFirst,
                   empty_dummies, X_training, y_training, X_val, scaler,
                   model_lr, gs_lr>>

\* lines 156-164: the scores and the plots, made by functions from outside
\* this file: they return or raise
Evaluate ==
    /\ pc = "evaluate"
    /\ \/ pc' = "cross_val" /\ exc' = exc
       \/ pc' = "raised" /\ exc' = Raised("evaluate", "Exception")
    /\ UNCHANGED <<client_vars, columns, strategy, fill, categories, dropFirst,
                   empty_dummies, X_training, y_training, X_val, scaler,
                   model_lr, y_val_pred, gs_lr>>

\* lines 167-168: cross_val_score fits clones of the pipeline, fold by fold,
\* and leaves pipeline_full alone; it returns the scores or raises
CrossValScore ==
    /\ pc = "cross_val"
    /\ \/ pc' = "grid_search" /\ exc' = exc
       \/ pc' = "raised" /\ exc' = Raised("cross_val", "ValueError")
    /\ UNCHANGED <<client_vars, columns, strategy, fill, categories, dropFirst,
                   empty_dummies, X_training, y_training, X_val, scaler,
                   model_lr, y_val_pred, gs_lr>>

\* lines 171-179: gs_lr = GridSearchCV(...): the search is constructed and
\* nothing is fit
GridSearch ==
    /\ pc = "grid_search"
    /\ gs_lr' = "Unfit"
    /\ pc' = "best_params"
    /\ UNCHANGED <<client_vars, columns, strategy, fill, categories, dropFirst,
                   empty_dummies, exc, X_training, y_training, X_val, scaler,
                   model_lr, y_val_pred>>

\* line 181: print(gs_lr.best_params_). The attribute exists only once the
\* search has been fit; no statement fits it, so lines 183-195 never run
PrintBestParams ==
    /\ pc = "best_params"
    /\ gs_lr = "Unfit"
    /\ pc' = "raised"
    /\ exc' = Raised("best_params", "AttributeError")
    /\ UNCHANGED <<client_vars, columns, strategy, fill, categories, dropFirst,
                   empty_dummies, X_training, y_training, X_val, scaler,
                   model_lr, y_val_pred, gs_lr>>

NextMain ==
    \/ Split
    \/ GetPipeline
    \/ PipelineFit
    \/ PipelinePredict
    \/ Evaluate
    \/ CrossValScore
    \/ GridSearch
    \/ PrintBestParams

SpecMain == InitMain /\ [][NextMain]_vars

(* ------------------------------ claims --------------------------------- *)

IsImputer == cls = "CategoricalImputer"
IsEncoder == cls = "CategoricalEncoder"

Fitted == op = "fit" /\ out.kind = "self"
Transformed == op = "transform" /\ out.kind = "table"

\* C1: transform on an instance on which fit was never called raises and
\* returns no table, whatever the table and the constructor arguments.
C1_TransformBeforeFitRaises ==
    (op = "transform" /\ ~fit_called) => out.kind = "error"

\* C2: after a fit that returns, the FitState is one a fresh instance with the
\* same configuration has after fit on the same table alone.
C2_SecondFitOverwrites ==
    Fitted =>
        /\ IsEncoder =>
              [out |-> Self, categories |-> categories]
                  \in CategoricalEncoder_fit(<<>>, X.table)
        /\ IsImputer =>
              [out |-> Self, columns |-> columns, fill |-> fill]
                  \in CategoricalImputer_fit(ctor_columns, strategy, NoFill, X.table)

\* the object columns of the client's table, in the table's order
ObjCols == SelectSeq(X.table, LAMBDA col : col.dtype = "object")

\* the indicator names the fit-time vocabulary stands for
Schema ==
    UNION {{c \o "_" \o categories[c][k] :
               k \in {i \in DOMAIN categories[c] : ~dropFirst \/ i > 1}} :
           c \in DOMAIN categories}

\* C3: the indicator columns a fitted encoder's transform returns are fixed by
\* the fit-time vocabulary, whatever the input table: a table holding every
\* fitted column returns all of Schema, so every table does (stated for the
\* tables with an object column, where pandas' releases agree).
C3_SchemaFixedByVocabulary ==
    (IsEncoder /\ Transformed /\ ObjCols # <<>>) =>
        Range(Names(out.table)) = Schema

\* C4: an imputer constructed without a column list has, after every fit that
\* returns, one fill value per column of the table passed to that fit.
C4_UnsetColumnsFollowX ==
    (IsImputer /\ ctor_columns.isNone /\ Fitted) =>
        /\ fill.isSet
        /\ DOMAIN fill.map = Range(Names(X.table))

\* v occurs at least as often as any other non-missing value of the column
MostFrequentIn(col, v) ==
    /\ v \in Present(col)
    /\ \A w \in Present(col) : Count(col, v) >= Count(col, w)

\* C7: with strategy most_frequent, fit records for every target column a most
\* frequent non-missing value of that column, and transform replaces exactly
\* the missing entries of the target columns by it.
C7_MostFrequentImputes ==
    (IsImputer /\ strategy.text = "most_frequent") =>
        /\ Fitted =>
              \A c \in Range(columns.list) :
                  /\ c \in DOMAIN fill.map
                  /\ HasCol(X.table, c) =>
                        MostFrequentIn(Col(X.table, c), fill.map[c])
        /\ Transformed =>
              /\ Names(out.table) = Names(X.table)
              /\ \A j \in DOMAIN X.table : \A i \in 1..NRows :
                    out.table[j].vals[i] =
                        IF X.table[j].name \in Range(columns.list)
                              /\ IsNA(X.table[j], i)
                        THEN fill.map[X.table[j].name]
                        ELSE X.table[j].vals[i]

\* the vocabulary entries of object column j that get an indicator column
Levels(j) ==
    LET cats == categories[ObjCols[j].name]
    IN  IF dropFirst THEN SubSeq(cats, 2, Len(cats)) ELSE cats

RECURSIVE Offset(_)
\* the number of indicator columns of the object columns before column j
Offset(j) == IF j = 1 THEN 0 ELSE Offset(j - 1) + Len(Levels(j - 1))

\* C8: fit records for each object column its distinct non-missing values by
\* descending frequency; transform returns, column by column, one indicator
\* per vocabulary entry in vocabulary order (without the first entry under
\* dropFirst), 1 in the rows holding that entry and 0 in all others, so a row
\* with a value not seen at fit time is all zero.
C8_OneHotByVocabulary ==
    IsEncoder =>
        /\ Fitted =>
              \A j \in DOMAIN ObjCols :
                  LET col == ObjCols[j]
                      cats == IF col.name \in DOMAIN categories
                              THEN categories[col.name] ELSE <<NaN>>
                  IN  /\ NoDup(cats)
                      /\ Range(cats) = Present(col)
                      /\ \A k \in 2..Len(cats) :
                            Count(col, cats[k - 1]) >= Count(col, cats[k])
        /\ Transformed =>
              /\ Len(out.table) = Offset(Len(ObjCols) + 1)
              /\ \A j \in DOMAIN ObjCols : \A k \in DOMAIN Levels(j) :
                    LET ind == out.table[Offset(j) + k]
                    IN  /\ ind.name = ObjCols[j].name \o "_" \o Levels(j)[k]
                        /\ \A i \in 1..NRows :
                              ind.vals[i] =
                                  IF ObjCols[j].vals[i] = Levels(j)[k] THEN 1 ELSE 0

\* C8's case: without dropFirst, two object columns are encoded, the first
\* with a value its one-entry vocabulary does not hold.
C8_Witness ==
    /\ IsEncoder /\ Transformed /\ ~dropFirst
    /\ Len(ObjCols) = 2
    /\ Len(categories["a"]) = 1
    /\ \E i \in 1..NRows : ObjCols[1].vals[i] \in Vals \ Range(categories["a"])
    /\ Len(categories["b"]) = 2
    /\ Len(out.table) = 3

\* C9: a transform call changes neither the FitState nor the client's table,
\* and a transform repeated on the same table returns the same result.
C9_TransformReadOnly ==
    [][op' = "transform" =>
          /\ columns' = columns
          /\ fill' = fill
          /\ categories' = categories
          /\ X' = X
          /\ op = "transform" => out' = out]_vars

\* C9's case: a fitted imputer has filled a missing entry in what it returned.
C9_Witness ==
    /\ IsImputer /\ Transformed /\ fit_called
    /\ out.table # X.table

\* the indicator columns transform returned for the object column named c
IndicatorsOf(c) ==
    {p \in DOMAIN out.table :
        \E v \in Range(categories[c]) : out.table[p].name = c \o "_" \o v}

\* C10: under dropFirst a row holding the first vocabulary entry and a row
\* holding an unseen or missing value both get the all-zero indicator row;
\* without dropFirst the two rows differ.
C10_DropFirstHidesTopCategory ==
    (IsEncoder /\ Transformed) =>
        \A j \in DOMAIN ObjCols :
            LET col == ObjCols[j]
                cats == categories[col.name]
            IN  \A i1, i2 \in 1..NRows :
                    (cats # <<>> /\ col.vals[i1] = cats[1]
                        /\ col.vals[i2] \notin Range(cats)) =>
                    IF dropFirst
                    THEN \A p \in IndicatorsOf(col.name) :
                            /\ out.table[p].vals[i1] = 0
                            /\ out.table[p].vals[i2] = 0
                    ELSE \E p \in IndicatorsOf(col.name) :
                            out.table[p].vals[i1] # out.table[p].vals[i2]

\* C10's case: under dropFirst a column with a two-entry vocabulary holds its
\* first entry in one row and a missing value in another.
C10_Witness ==
    /\ IsEncoder /\ Transformed /\ dropFirst
    /\ \E j \in DOMAIN ObjCols :
          LET col == ObjCols[j]
              cats == categories[col.name]
          IN  /\ Len(cats) = 2
              /\ \E i1, i2 \in 1..NRows :
                    col.vals[i1] = cats[1] /\ col.vals[i2] = NaN

\* the training table has one int64 column and one object column
OneNumericOneCategorical ==
    /\ Len(X_training) = 2
    /\ Len(select_dtypes(X_training, "int64")) = 1
    /\ Len(select_dtypes(X_training, "object")) = 1

\* C5: on data with one numeric and one categorical column, whatever their
\* names, and two label classes, get_pipeline()'s fit and then predict on a
\* table of these columns raise nothing, and predict returns one label per
\* row, each a training class.
C5_FitThenPredict ==
    (OneNumericOneCategorical /\ Range(y_training) = Labels) =>
        /\ exc.at \notin {"fit", "predict"}
        /\ pc \in {"evaluate", "cross_val", "grid_search", "best_params"} =>
              /\ Len(y_val_pred) = ValRows
              /\ Range(y_val_pred) \subseteq Range(y_training)

\* C6: whenever the program is at a read of the search's best parameters or
\* best score, the grid search has been run to completion.
C6_BestParamsAfterSearch ==
    pc = "best_params" => gs_lr = "Fit"

====
